---- MODULE Spec2Model ----
(***************************************************************************)
(* A model of the tictactoe package: the TicTacToe engine (game.py), the   *)
(* players (players.py) and ConsoleInterface.play_game (interface.py).     *)
(*                                                                         *)
(* Python values are modelled as follows.  The board is the list of nine   *)
(* one-character strings, a function on 0..8.  GameState members are their *)
(* string values.  None is "None" where the other values are strings       *)
(* (winner, the return value of play_game), the empty tuple where they are *)
(* lists (winning_pattern) and -1 where they are board indices (best_move).*)
(***************************************************************************)
EXTENDS Integers, Sequences, FiniteSets, TLC

VARIABLES
  board,            \* TicTacToe.board
  current_player,   \* TicTacToe.current_player
  game_state,       \* TicTacToe.game_state
  moves_count,      \* TicTacToe.moves_count
  winner,           \* TicTacToe.winner
  winning_pattern,  \* TicTacToe.winning_pattern
  last,             \* the last call made on the engine, with its return value
  pc,               \* where ConsoleInterface.play_game stands
  players,          \* play_game's local dict: mark -> player object
  move,             \* play_game's local: what get_move returned
  result,           \* what play_game returned
  entered,          \* HumanPlayer.get_move, while it runs: what input() last did
  stats,            \* a GameStats object: games_played, wins, draws, total_moves
  recorded          \* the calls of record_game on it since it was fresh

engine == <<board, current_player, game_state, moves_count, winner, winning_pattern>>
driver == <<pc, players, move, result, entered>>
statistics == <<stats, recorded>>
vars == <<board, current_player, game_state, moves_count, winner, winning_pattern,
          last, pc, players, move, result, entered, stats, recorded>>

----------------------------------------------------------------------------
(* Bounds of the model *)

\* make_move and is_valid_move are tried with every position from
\* -OutOfRange to 8 + OutOfRange
OutOfRange == 2

Positions == (0 - OutOfRange)..(8 + OutOfRange)

\* record_game is called at most MaxGames times on a fresh GameStats
MaxGames == 4

----------------------------------------------------------------------------
(* game.py *)

ONGOING == "ongoing"
X_WINS == "x_wins"
O_WINS == "o_wins"
DRAW == "draw"

None == "None"
NoPattern == <<>>
\* None as a board index (best_move = None in players.py)
NoMove == -1

WIN_PATTERNS ==
  << <<0, 1, 2>>, <<3, 4, 5>>, <<6, 7, 8>>,
     <<0, 3, 6>>, <<1, 4, 7>>, <<2, 5, 8>>,
     <<0, 4, 8>>, <<2, 4, 6>> >>

EmptyBoard == [i \in 0..8 |-> " "]

\* A Python list index: a negative index counts from the end of the
\* nine-element list; an index outside -9..8 raises IndexError (here: no value).
PyIndex(i) == IF i < 0 THEN i + 9 ELSE i
PyGet(b, i) == b[PyIndex(i)]
PySet(b, i, v) == [b EXCEPT ![PyIndex(i)] = v]

\* The test of _update_game_state and of _evaluate_board on one pattern:
\* board[p[0]] == board[p[1]] == board[p[2]] != ' '
Line(b, p) == b[p[1]] = b[p[2]] /\ b[p[2]] = b[p[3]] /\ b[p[3]] # " "

\* "for pattern in WIN_PATTERNS: if <Line>: ... return": the place in
\* WIN_PATTERNS of the first completed pattern, 0 when the loop falls through.
FirstLine_from_the_end(b) ==
  IF Line(b, WIN_PATTERNS[8]) THEN 8 ELSE IF Line(b, WIN_PATTERNS[7]) THEN 7
  ELSE IF Line(b, WIN_PATTERNS[6]) THEN 6 ELSE IF Line(b, WIN_PATTERNS[5]) THEN 5
  ELSE IF Line(b, WIN_PATTERNS[4]) THEN 4 ELSE IF Line(b, WIN_PATTERNS[3]) THEN 3
  ELSE IF Line(b, WIN_PATTERNS[2]) THEN 2 ELSE IF Line(b, WIN_PATTERNS[1]) THEN 1
  ELSE 0

FirstLine(b) ==
  IF Line(b, WIN_PATTERNS[1]) THEN 1 ELSE IF Line(b, WIN_PATTERNS[2]) THEN 2
  ELSE IF Line(b, WIN_PATTERNS[3]) THEN 3 ELSE IF Line(b, WIN_PATTERNS[4]) THEN 4
  ELSE IF Line(b, WIN_PATTERNS[5]) THEN 5 ELSE IF Line(b, WIN_PATTERNS[6]) THEN 6
  ELSE IF Line(b, WIN_PATTERNS[7]) THEN 7 ELSE IF Line(b, WIN_PATTERNS[8]) THEN 8
  ELSE 0

is_valid_move_lower_bound_dropped(position) ==
  /\ position <= 8
  /\ PyGet(board, position) = " "
  /\ game_state = ONGOING

is_valid_move_ignores_occupied(position) ==
  /\ 0 <= position
  /\ position <= 8
  /\ game_state = ONGOING

is_valid_move_ignores_game_state(position) ==
  /\ 0 <= position
  /\ position <= 8
  /\ PyGet(board, position) = " "

is_valid_move(position) ==
  /\ 0 <= position
  /\ position <= 8
  /\ PyGet(board, position) = " "
  /\ game_state = ONGOING

\* range(9)
range9 == <<0, 1, 2, 3, 4, 5, 6, 7, 8>>

\* [i for i in range(9) if self.board[i] == ' ']: a list, in the order of range(9)
get_available_moves_only_while_ongoing ==
  IF game_state = ONGOING THEN SelectSeq(range9, LAMBDA i : board[i] = " ") ELSE <<>>

get_available_moves == SelectSeq(range9, LAMBDA i : board[i] = " ")

\* self.board.copy(): a new list object with the cells of the board.  obj names
\* the object: a write to a list changes self.board only if the list is self.board.
get_board_copy == [obj |-> "copy", cells |-> board]

is_game_over == game_state # ONGOING

\* _update_game_state, run on the board b and the count mc that make_move has
\* just written: the values of game_state, winner and winning_pattern after it.
update_game_state_draw_first(b, mc) ==
  IF mc = 9
  THEN [game_state |-> DRAW, winner |-> winner, winning_pattern |-> winning_pattern]
  ELSE LET k == FirstLine(b) IN
       IF k # 0
       THEN [game_state |-> IF b[WIN_PATTERNS[k][1]] = "X" THEN X_WINS ELSE O_WINS,
             winner |-> b[WIN_PATTERNS[k][1]],
             winning_pattern |-> WIN_PATTERNS[k]]
       ELSE [game_state |-> game_state, winner |-> winner,
             winning_pattern |-> winning_pattern]

update_game_state_rows_only(b, mc) ==
  LET k == IF Line(b, WIN_PATTERNS[1]) THEN 1 ELSE IF Line(b, WIN_PATTERNS[2]) THEN 2
           ELSE IF Line(b, WIN_PATTERNS[3]) THEN 3 ELSE 0
  IN
  IF k # 0
  THEN [game_state |-> IF b[WIN_PATTERNS[k][1]] = "X" THEN X_WINS ELSE O_WINS,
        winner |-> b[WIN_PATTERNS[k][1]],
        winning_pattern |-> WIN_PATTERNS[k]]
  ELSE IF mc = 9
  THEN [game_state |-> DRAW, winner |-> winner, winning_pattern |-> winning_pattern]
  ELSE [game_state |-> game_state, winner |-> winner,
        winning_pattern |-> winning_pattern]

update_game_state_draw_at_eight(b, mc) ==
  LET k == FirstLine(b) IN
  IF k # 0
  THEN [game_state |-> IF b[WIN_PATTERNS[k][1]] = "X" THEN X_WINS ELSE O_WINS,
        winner |-> b[WIN_PATTERNS[k][1]],
        winning_pattern |-> WIN_PATTERNS[k]]
  ELSE IF mc = 8
  THEN [game_state |-> DRAW, winner |-> winner, winning_pattern |-> winning_pattern]
  ELSE [game_state |-> game_state, winner |-> winner,
        winning_pattern |-> winning_pattern]

update_game_state(b, mc) ==
  LET k == FirstLine(b) IN
  IF k # 0
  THEN [game_state |-> IF b[WIN_PATTERNS[k][1]] = "X" THEN X_WINS ELSE O_WINS,
        winner |-> b[WIN_PATTERNS[k][1]],
        winning_pattern |-> WIN_PATTERNS[k]]
  ELSE IF mc = 9
  THEN [game_state |-> DRAW, winner |-> winner, winning_pattern |-> winning_pattern]
  ELSE [game_state |-> game_state, winner |-> winner,
        winning_pattern |-> winning_pattern]

\* The count make_move writes after a move: moves_count += 1
count_after_move_unchanged(mc) == mc

count_after_move(mc) == mc + 1

\* The mark make_move leaves in current_player when the game goes on
switch_player_never(p) == p

switch_player(p) == IF p = "X" THEN "O" ELSE "X"

\* "if self.game_state == GameState.ONGOING: switch": the active mark after a
\* move that left the outcome gs
player_after_move_always_switched(p, gs) == switch_player(p)

player_after_move(p, gs) == IF gs = ONGOING THEN switch_player(p) ELSE p

make_move(position) ==
  IF is_valid_move(position)
  THEN LET b == PySet(board, position, current_player)
           mc == count_after_move(moves_count)
           u == update_game_state(b, mc)
       IN /\ board' = b
          /\ moves_count' = mc
          /\ game_state' = u.game_state
          /\ winner' = u.winner
          /\ winning_pattern' = u.winning_pattern
          /\ current_player' = player_after_move(current_player, u.game_state)
          /\ last' = [op |-> "make_move", position |-> position, ret |-> TRUE]
  ELSE /\ UNCHANGED engine
       /\ last' = [op |-> "make_move", position |-> position, ret |-> FALSE]

reset ==
  /\ board' = EmptyBoard
  /\ current_player' = "X"
  /\ game_state' = ONGOING
  /\ moves_count' = 0
  /\ winner' = None
  /\ winning_pattern' = NoPattern
  /\ last' = [op |-> "reset"]

----------------------------------------------------------------------------
(* utils.py: GameStats.  A float with decimals is the integer number of its
   hundredths: 6.8 is 680. *)

\* GameStats.__init__, and the fields after GameStats.reset (wins is a
\* defaultdict(int): a key it does not hold reads as 0)
GameStats_fresh == [games_played |-> 0, wins |-> [X |-> 0, O |-> 0], draws |-> 0,
                    total_moves |-> 0]

\* GameStats.record_game(game_state, total_moves), with gs for its game_state
record_game(gs, total_moves) ==
  /\ stats' =
       [games_played |-> stats.games_played + 1,
        total_moves |-> stats.total_moves + total_moves,
        wins |-> IF gs = X_WINS THEN [stats.wins EXCEPT !.X = @ + 1]
                 ELSE IF gs = O_WINS THEN [stats.wins EXCEPT !.O = @ + 1]
                 ELSE stats.wins,
        draws |-> IF gs = X_WINS THEN stats.draws
                  ELSE IF gs = O_WINS THEN stats.draws
                  ELSE IF gs = DRAW THEN stats.draws + 1
                  ELSE stats.draws]
  /\ recorded' = Append(recorded, <<gs, total_moves>>)

max(a, b) == IF a >= b THEN a ELSE b

\* the quotient n / d cut after its second decimal, in hundredths
round_not_rounded(n, d) == (100 * n) \div d

\* round(n / d, 1) for integers n >= 0 and d > 0, in hundredths: the nearest
\* multiple of 0.1, and of two equally near ones the one with the even last
\* digit.  (Python rounds the double n / d; the double is halfway between two
\* multiples of 0.1 only when n / d is, which for d <= 5 means d = 4, and then
\* the double is exact.)
round(n, d) ==
  LET q == (10 * n) \div d
      rest == (10 * n) % d
  IN 10 * (IF 2 * rest > d THEN q + 1
           ELSE IF 2 * rest < d THEN q
           ELSE IF q % 2 = 0 THEN q ELSE q + 1)

\* GameStats.get_stats
get_stats ==
  [games_played |-> stats.games_played,
   x_wins |-> stats.wins.X,
   o_wins |-> stats.wins.O,
   draws |-> stats.draws,
   average_moves |-> round(stats.total_moves, max(1, stats.games_played))]

\* GameStats.reset
GameStats_reset ==
  /\ stats' = GameStats_fresh
  /\ recorded' = <<>>

----------------------------------------------------------------------------
(* The engine under an arbitrary caller *)

NoPlayer == [cls |-> "None"]

Init ==
  /\ board = EmptyBoard
  /\ current_player = "X"
  /\ game_state = ONGOING
  /\ moves_count = 0
  /\ winner = None
  /\ winning_pattern = NoPattern
  /\ last = [op |-> "__init__"]
  /\ pc = "idle"
  /\ players = [X |-> NoPlayer, O |-> NoPlayer]
  /\ move = NoMove
  /\ result = None
  /\ entered = None
  /\ stats = GameStats_fresh
  /\ recorded = <<>>

MakeMove ==
  \E position \in Positions : make_move(position) /\ UNCHANGED <<driver, statistics>>

Reset == reset /\ UNCHANGED <<driver, statistics>>

Next == MakeMove \/ Reset

Spec == Init /\ [][Next]_vars

----------------------------------------------------------------------------
(* players.py *)

\* float('-inf') and float('inf'): below and above every score
NEG_INF == -1000
POS_INF == 1000

HumanPlayer(symbol) == [cls |-> "HumanPlayer", symbol |-> symbol]

RandomAI(symbol) == [cls |-> "RandomAI", symbol |-> symbol]

\* random.choice(seq): every element of the list (none when it is empty:
\* IndexError)
random_choice(seq) == {seq[k] : k \in 1..Len(seq)}

SmartAI(symbol, difficulty) ==
  [cls |-> "SmartAI", symbol |-> symbol, difficulty |-> difficulty,
   opponent_symbol |-> IF symbol = "X" THEN "O" ELSE "X"]

\* RandomAI.get_move: every value random.choice(available_moves) can return
RandomAI_get_move_any_cell == random_choice(range9)

RandomAI_get_move == random_choice(get_available_moves)

evaluate_board_sign_flipped(self, b) ==
  LET k == FirstLine(b) IN
  IF k = 0 THEN 0
  ELSE IF b[WIN_PATTERNS[k][1]] = self.symbol THEN -10 ELSE 10

\* SmartAI._evaluate_board
evaluate_board(self, b) ==
  LET k == FirstLine(b) IN
  IF k = 0 THEN 0
  ELSE IF b[WIN_PATTERNS[k][1]] = self.symbol THEN 10 ELSE -10

\* The comparison of one loop pass of _minimax: "current_score > best_score"
\* when maximizing, "current_score < best_score" when minimizing
better_score_always_maximizing(is_maximizing, current_score, best_score) ==
  IF best_score = POS_INF THEN TRUE ELSE current_score > best_score

better_score_or_equal(is_maximizing, current_score, best_score) ==
  IF is_maximizing THEN current_score >= best_score ELSE current_score <= best_score

better_score(is_maximizing, current_score, best_score) ==
  IF is_maximizing THEN current_score > best_score ELSE current_score < best_score

\* The mark that moves in the recursive call of _minimax:
\* self.opponent_symbol if player == self.symbol else self.symbol
other_player_never_switched(self, player) == player

other_player(self, player) ==
  IF player = self.symbol THEN self.opponent_symbol ELSE self.symbol

\* "board[i] = ' '  # Undo move" on the list b
undo_move_forgotten(b, i) == b

undo_move(b, i) == [b EXCEPT ![i] = " "]

\* SmartAI._minimax on the list b, which it writes and restores in place:
\* <<score, best_move, the list as the call leaves it>>.  minimax_loop is the
\* "for i in range(9)" of either branch, from pass i on, with best the pair
\* <<best_score, best_move>> so far.
RECURSIVE minimax(_, _, _, _), minimax_loop(_, _, _, _, _, _)

minimax_loop(self, b, player, is_maximizing, i, best) ==
  IF i > 8 THEN <<best[1], best[2], b>>
  ELSE IF b[i] # " " THEN minimax_loop(self, b, player, is_maximizing, i + 1, best)
  ELSE LET r == minimax(self, [b EXCEPT ![i] = player], other_player(self, player),
                        ~is_maximizing)
           undone == undo_move(r[3], i)
       IN minimax_loop(self, undone, player, is_maximizing, i + 1,
                       IF better_score(is_maximizing, r[1], best[1])
                       THEN <<r[1], i>> ELSE best)

minimax(self, b, player, is_maximizing) ==
  LET score == evaluate_board(self, b) IN
  IF score # 0 \/ (\A i \in 0..8 : b[i] # " ")
  THEN <<score, NoMove, b>>
  ELSE minimax_loop(self, b, player, is_maximizing, 0,
                    <<IF is_maximizing THEN NEG_INF ELSE POS_INF, NoMove>>)

\* What pass i of the loop of the root call gets from its recursive call: the
\* score, for self, of the board b once self has marked the Empty cell i
move_value(self, b, i) ==
  minimax(self, [b EXCEPT ![i] = self.symbol], self.opponent_symbol, FALSE)[1]

\* "self._minimax(game.get_board_copy(), self.symbol, True)" in get_move: the
\* list passed (arg) and what the call returns (r)
SmartAI_search(self) ==
  LET arg == get_board_copy
  IN [arg |-> arg, r |-> minimax(self, arg.cells, self.symbol, TRUE)]

\* A call of SmartAI.get_move: every way it can end, given what its search
\* returns if it is made.  In easy mode random.random() < 0.3 may hold or not.
\* An outcome is the value returned (ret), self.board after the call (live),
\* and for a call that searched, the best_move of _minimax and the list it
\* searched on as the search left it (copy).
SmartAI_get_move_ends(self, search) ==
  LET best_move == search.r[2]
      found == [ret |-> IF best_move # NoMove THEN best_move ELSE get_available_moves[1],
                live |-> IF search.arg.obj = "self.board" THEN search.r[3] ELSE board,
                searched |-> TRUE, best_move |-> best_move, copy |-> search.r[3]]
      lucky == {[ret |-> m, live |-> board, searched |-> FALSE]
                  : m \in random_choice(get_available_moves)}
  IN IF self.difficulty = "easy" THEN lucky \cup {found} ELSE {found}

SmartAI_get_move_call(self) == SmartAI_get_move_ends(self, SmartAI_search(self))

\* SmartAI.get_move: every value it can return
SmartAI_get_move(self) == {o.ret : o \in SmartAI_get_move_call(self)}

\* What the input collaborator can deliver to input(): a line that int()
\* parses (value), a line it does not (ValueError), or Ctrl-C (KeyboardInterrupt)
InputEvents ==
  {[kind |-> "number", value |-> n] : n \in (1 - OutOfRange)..(9 + OutOfRange)}
    \cup {[kind |-> "text"], [kind |-> "interrupt"]}

\* One pass of the "while True" of HumanPlayer.get_move on the input event e:
\* the value returned, or the message printed before the next pass.
HumanPlayer_pass(e) ==
  IF e.kind = "number"
  THEN LET position == e.value - 1 IN
       IF is_valid_move(position)
       THEN [returns |-> TRUE, ret |-> position]
       ELSE [returns |-> FALSE, printed |-> "Invalid move! Try again."]
  ELSE [returns |-> FALSE, printed |-> "Please enter a number between 1-9."]

\* A call of HumanPlayer.get_move: it returns on the first pass that returns,
\* whatever passes came before (no pass changes anything)
HumanPlayer_get_move_call ==
  {[ret |-> HumanPlayer_pass(e).ret, live |-> board, searched |-> FALSE, entered |-> e.value]
     : e \in {e \in InputEvents : HumanPlayer_pass(e).returns}}

\* A Player subclass of the caller whose get_move returns the same position
\* whatever the game
FixedPlayer(symbol, position) ==
  [cls |-> "FixedPlayer", symbol |-> symbol, position |-> position]

\* current_player.get_move(self.game): every way the call can end
get_move_call(self) ==
  CASE self.cls = "HumanPlayer" -> HumanPlayer_get_move_call
    [] self.cls = "RandomAI" ->
         {[ret |-> m, live |-> board, searched |-> FALSE] : m \in RandomAI_get_move}
    [] self.cls = "SmartAI" -> SmartAI_get_move_call(self)
    [] self.cls = "FixedPlayer" ->
         {[ret |-> self.position, live |-> board, searched |-> FALSE]}

\* current_player.get_move(self.game): every value it can return
get_move(self) == {o.ret : o \in get_move_call(self)}

----------------------------------------------------------------------------
(* interface.py: ConsoleInterface.play_game *)

\* the call play_game(player_x, player_o), when no call of it is running: on
\* the game the ConsoleInterface was constructed with (pc = "idle") or on the
\* game an earlier call has left (pc = "done", pc = "interrupted")
play_game(player_x, player_o) ==
  /\ pc \in {"idle", "done", "interrupted"}
  /\ players' = [X |-> player_x, O |-> player_o]
  /\ pc' = "while"
  /\ UNCHANGED <<engine, last, move, result, entered, statistics>>

\* while not self.game.is_game_over(): ... ; after the loop, return game_state
WhileTest ==
  /\ pc = "while"
  /\ IF is_game_over
     THEN pc' = "done" /\ result' = game_state
     ELSE pc' = "get_move" /\ UNCHANGED result
  /\ UNCHANGED <<engine, last, players, move, entered, statistics>>

\* move = current_player.get_move(self.game), for a player that reads no input
GetMove ==
  /\ pc = "get_move"
  /\ players[current_player].cls # "HumanPlayer"
  /\ \E o \in get_move_call(players[current_player]) : move' = o.ret /\ board' = o.live
  /\ pc' = "make_move"
  /\ UNCHANGED <<current_player, game_state, moves_count, winner, winning_pattern,
                 last, players, result, entered, statistics>>

\* if not self.game.make_move(move): print(...); continue
ApplyMove ==
  /\ pc = "make_move"
  /\ make_move(move)
  /\ pc' = "while"
  /\ UNCHANGED <<players, move, result, entered, statistics>>

(* SmartAI in hard mode as X, against an opponent that may play any legal
   reply (RandomAI) and against SmartAI in hard mode *)

OpponentsOfSmartX == {RandomAI("O"), SmartAI("O", "hard")}

StartSmartX ==
  /\ pc = "idle"
  /\ \E player_o \in OpponentsOfSmartX : play_game(SmartAI("X", "hard"), player_o)

NextSmartX == StartSmartX \/ WhileTest \/ GetMove \/ ApplyMove

\* get_move returns: the step that leaves pc = "get_move", with whatever move.
\* Every GetMove step is such a step, and play_game takes no other step there.
GetMoveReturns ==
  /\ pc = "get_move"
  /\ \E m \in Positions : move' = m
  /\ pc' = "make_move"
  /\ entered' = None
  /\ UNCHANGED <<engine, last, players, result, statistics>>

\* play_game is one thread of control and every call it makes returns (the
\* search is a finite recursion): once started, it takes its next step.
SessionRuns == WF_vars(WhileTest) /\ WF_vars(GetMoveReturns) /\ WF_vars(ApplyMove)

SpecSmartX == Init /\ [][NextSmartX]_vars /\ SessionRuns

(* Sessions of play_game with a player that reads input, with players that
   choose any legal move, and with a Player subclass of the caller that
   returns the centre cell whatever the game; play_game may be called again
   when it has returned *)

\* One pass of the "while True" of HumanPlayer.get_move, on what input() does
HumanInput ==
  /\ pc = "get_move"
  /\ players[current_player].cls = "HumanPlayer"
  /\ \E e \in InputEvents :
       LET pass == HumanPlayer_pass(e) IN
       IF pass.returns
       THEN move' = pass.ret /\ pc' = "make_move" /\ entered' = None
       ELSE entered' = e.kind /\ UNCHANGED <<pc, move>>
  /\ UNCHANGED <<engine, last, players, result, statistics>>

\* except KeyboardInterrupt: print(...); return -- Ctrl-C while get_move of a
\* player that reads no input runs; the bare return returns None
Interrupt ==
  /\ pc = "get_move"
  /\ players[current_player].cls # "HumanPlayer"
  /\ pc' = "interrupted"
  /\ result' = None
  /\ UNCHANGED <<engine, last, players, move, entered, statistics>>

Sessions ==
  { <<HumanPlayer("X"), RandomAI("O")>>,
    <<RandomAI("X"), RandomAI("O")>>,
    <<RandomAI("X"), FixedPlayer("O", 4)>> }

StartSession == \E s \in Sessions : play_game(s[1], s[2])

NextSession ==
  StartSession \/ WhileTest \/ GetMove \/ HumanInput \/ Interrupt \/ ApplyMove

SpecSession == Init /\ [][NextSession]_vars /\ SessionRuns

(* SmartAI in hard mode as O, against an X that may play any legal move: the
   players of the tournament script *)

StartSmartO ==
  /\ pc = "idle"
  /\ play_game(RandomAI("X"), SmartAI("O", "hard"))

NextSmartO == StartSmartO \/ WhileTest \/ GetMove \/ ApplyMove

SpecSmartO == Init /\ [][NextSmartO]_vars /\ SessionRuns

----------------------------------------------------------------------------
(* The strategies asked by a caller that plays any legal game: the caller
   tests is_game_over() and, while the game goes on, may ask any built-in
   strategy bound to the active mark for a move, then makes any legal move *)

LegalMove ==
  \E position \in 0..8 :
    is_valid_move(position) /\ make_move(position) /\ UNCHANGED <<driver, statistics>>

\* the call game.is_game_over()
IsGameOver ==
  /\ last.op \in {"__init__", "make_move"}
  /\ last' = [op |-> "is_game_over", ret |-> is_game_over]
  /\ UNCHANGED <<engine, driver, statistics>>

\* the call self.get_move(game) while the game goes on, ending in one of the
\* ways of ends: last records the player asked and how the call ended
Ask(self, ends) ==
  /\ last.op = "is_game_over"
  /\ ~last.ret
  /\ \E o \in ends :
       /\ board' = o.live
       /\ last' = [op |-> "get_move", player |-> self, outcome |-> o]
  /\ UNCHANGED <<current_player, game_state, moves_count, winner, winning_pattern,
                 driver, statistics>>

AskRandom == LET self == RandomAI(current_player) IN Ask(self, get_move_call(self))

AskHuman == LET self == HumanPlayer(current_player) IN Ask(self, get_move_call(self))

\* The calls of get_move on a SmartAI of either difficulty bound to the active
\* mark: the player asked and one way its call ends.  _minimax reads
\* self.symbol and self.opponent_symbol of self and nothing else, so the search
\* of the two players is the same call and is evaluated once.
SmartAI_calls ==
  LET search == SmartAI_search(SmartAI(current_player, "hard"))
  IN UNION {{[self |-> SmartAI(current_player, difficulty), outcome |-> o]
               : o \in SmartAI_get_move_ends(SmartAI(current_player, difficulty), search)}
             : difficulty \in {"hard", "easy"}}

AskSmart ==
  /\ last.op = "is_game_over"
  /\ ~last.ret
  /\ \E call \in SmartAI_calls : Ask(call.self, {call.outcome})

NextAsk == LegalMove \/ IsGameOver \/ AskRandom \/ AskHuman \/ AskSmart

SpecAsk == Init /\ [][NextAsk]_vars

----------------------------------------------------------------------------
(* What the claims speak of, stated on the board alone *)

Marks == {"X", "O"}

\* mark m occupies all three cells of some win pattern of b
HasLine(b, m) == \E k \in 1..8 : \A j \in 1..3 : b[WIN_PATTERNS[k][j]] = m

EmptyCells(b) == {i \in 0..8 : b[i] = " "}

WinOf(m) == IF m = "X" THEN X_WINS ELSE O_WINS

\* the mark that places the k-th accepted move of a game
MarkOfMove(k) == IF k % 2 = 1 THEN "X" ELSE "O"

\* the step is a call of make_move
CalledMakeMove == last'.op = "make_move"

\* the step is a call of make_move that returned True
AcceptedMove == last'.op = "make_move" /\ last'.ret

\* Scenario A: X:0, O:4, X:1, O:7, X:2
ScenarioA == [i \in 0..8 |-> IF i \in {0, 1, 2} THEN "X" ELSE IF i \in {4, 7} THEN "O" ELSE " "]

----------------------------------------------------------------------------
(* The claims on the engine, checked under Spec *)

\* C1: make_move with an illegal position (outside 0..8, an occupied cell, or
\* any position once the game is over) returns False and leaves board,
\* moves_count, current_player, game_state, winner and winning_pattern unchanged.
C1_IllegalMoveIsNoOp ==
  [][ (/\ CalledMakeMove
       /\ LET p == last'.position IN
          p < 0 \/ p > 8 \/ board[p] # " " \/ game_state # ONGOING)
      => (last'.ret = FALSE /\ UNCHANGED engine) ]_vars

\* a call on an occupied cell of a game in progress was refused
C1_Witness ==
  /\ last.op = "make_move"
  /\ last.ret = FALSE
  /\ last.position \in 0..8
  /\ board[last.position] # " "
  /\ game_state = ONGOING

\* C4: in every reachable state moves_count is the number of non-empty cells,
\* 9 minus the number of Empty cells.
C4_CountMatchesBoard == moves_count = 9 - Cardinality(EmptyCells(board))

\* a refused call in the middle of a game
C4_Witness ==
  /\ last.op = "make_move"
  /\ last.ret = FALSE
  /\ moves_count = 4
  /\ Cardinality(EmptyCells(board)) = 5

\* C5: game_state is ONGOING if and only if no win pattern is fully occupied
\* by one mark and moves_count < 9.
C5_OngoingIffNoLineAndNotFull ==
  (game_state = ONGOING) <=>
    ((\A m \in Marks : ~HasLine(board, m)) /\ moves_count < 9)

\* a game won on a column before the board is full
C5_Witness ==
  /\ game_state = O_WINS
  /\ moves_count = 6
  /\ winning_pattern = <<1, 4, 7>>

\* C6: once game_state is not ONGOING, is_valid_move is False for every
\* index, and no later make_move call changes the state.
C6_TerminalIsAbsorbing ==
  [][ game_state # ONGOING =>
        /\ \A p \in Positions : ~is_valid_move(p)
        /\ CalledMakeMove => (last'.ret = FALSE /\ UNCHANGED engine) ]_vars

\* make_move on an Empty cell of a finished game was refused
C6_Witness ==
  /\ game_state \in {X_WINS, O_WINS}
  /\ last.op = "make_move"
  /\ last.ret = FALSE
  /\ last.position \in 0..8
  /\ board[last.position] = " "

\* C7: the active mark starts as X and flips after each accepted move while
\* the outcome stays ONGOING; the k-th accepted move is placed with X when k
\* is odd and with O when k is even.
C7_MarksAlternate ==
  [][ /\ game_state' = ONGOING => current_player' = MarkOfMove(moves_count' + 1)
      /\ AcceptedMove =>
           /\ moves_count' = moves_count + 1
           /\ board'[last'.position] = MarkOfMove(moves_count')
           /\ game_state' = ONGOING => current_player' # current_player ]_vars

\* the fourth accepted move, placed with O, after which X is active
C7_Witness ==
  /\ last.op = "make_move"
  /\ last.ret
  /\ moves_count = 4
  /\ board[last.position] = "O"
  /\ game_state = ONGOING
  /\ current_player = "X"

\* C8: is_valid_move(position) is True exactly when 0 <= position <= 8, the
\* cell is Empty and game_state is ONGOING; for an out-of-range integer it is
\* False, and it is evaluated without an index error.
C8_IsValidMove ==
  \A p \in Positions :
    is_valid_move(p) = (p \in 0..8 /\ board[p] = " " /\ game_state = ONGOING)

\* position -1 was refused while board[-1], the last cell, is Empty in a game
\* in progress
C8_Witness ==
  /\ last.op = "make_move"
  /\ last.position = -1
  /\ last.ret = FALSE
  /\ board[8] = " "
  /\ game_state = ONGOING
  /\ moves_count > 0

\* C9: a legal make_move(index) sets board[index] to the mark active before
\* the call, leaves the other cells unchanged, increments moves_count by 1,
\* recomputes the outcome, flips the active mark only if the outcome is still
\* ONGOING, and returns True.
C9_LegalMoveEffect ==
  [][ \A p \in 0..8 :
        (CalledMakeMove /\ last'.position = p /\ board[p] = " " /\ game_state = ONGOING)
        => /\ last'.ret = TRUE
           /\ board' = [board EXCEPT ![p] = current_player]
           /\ moves_count' = moves_count + 1
           /\ game_state' = IF HasLine(board', current_player) THEN WinOf(current_player)
                            ELSE IF moves_count' = 9 THEN DRAW ELSE ONGOING
           /\ current_player' = IF game_state' = ONGOING
                                THEN (IF current_player = "X" THEN "O" ELSE "X")
                                ELSE current_player ]_vars

\* a move that ended the game: the mover is still the active mark
C9_Witness ==
  /\ last.op = "make_move"
  /\ last.ret
  /\ game_state = DRAW
  /\ current_player = "X"
  /\ board[last.position] = "X"

\* C10: whenever a legal move completes a win pattern for the mover, the
\* outcome becomes that mark's win and the winning line is recorded; the
\* sequence X:0, O:4, X:1, O:7, X:2 ends with X_WINS, line (0,1,2), count 5.
C10_WinIsRecorded ==
  [][ /\ (AcceptedMove /\ HasLine(board', current_player))
         => /\ game_state' = WinOf(current_player)
            /\ winner' = current_player
            /\ \E k \in 1..8 : /\ winning_pattern' = WIN_PATTERNS[k]
                               /\ \A j \in 1..3 : board'[WIN_PATTERNS[k][j]] = current_player
      /\ board' = ScenarioA
         => /\ game_state' = X_WINS
            /\ winning_pattern' = <<0, 1, 2>>
            /\ moves_count' = 5 ]_vars

\* the board of scenario A, its last move being X at 2
C10_Witness ==
  /\ board = ScenarioA
  /\ last.op = "make_move"
  /\ last.ret
  /\ last.position = 2
  /\ game_state = X_WINS

\* Scenario B: the moves 0, 1, 2, 4, 3, 5, 7, 6, 8, X and O in turn
ScenarioB == [i \in 0..8 |-> IF i \in {0, 2, 3, 7, 8} THEN "X" ELSE "O"]

\* C11: nine legal moves that complete no win pattern end in DRAW with move
\* count 9, no winner and no winning line; the moves 0,1,2,4,3,5,7,6,8 do so;
\* DRAW is never reported while an Empty cell remains.
C11_FullBoardWithoutLineIsDraw ==
  /\ (moves_count = 9 /\ \A m \in Marks : ~HasLine(board, m))
       => (game_state = DRAW /\ winner = None /\ winning_pattern = NoPattern)
  /\ board = ScenarioB => (game_state = DRAW /\ moves_count = 9)
  /\ game_state = DRAW => (EmptyCells(board) = {} /\ moves_count = 9)

\* the board of scenario B, its last move being X at 8
C11_Witness ==
  /\ board = ScenarioB
  /\ last.op = "make_move"
  /\ last.ret
  /\ last.position = 8
  /\ game_state = DRAW

\* C18: get_available_moves returns exactly the indices of Empty cells in
\* ascending order, in every state; in an ONGOING state these are exactly the
\* indices for which is_valid_move is True, while in a finished game with
\* Empty cells left the list is non-empty although no move is legal.
C18_AvailableMoves ==
  LET s == get_available_moves IN
  /\ \A k \in 1..(Len(s) - 1) : s[k] < s[k + 1]
  /\ {s[k] : k \in 1..Len(s)} = EmptyCells(board)
  /\ game_state = ONGOING
       => {s[k] : k \in 1..Len(s)} = {p \in Positions : is_valid_move(p)}
  /\ (game_state # ONGOING /\ EmptyCells(board) # {})
       => (Len(s) > 0 /\ \A p \in Positions : ~is_valid_move(p))

\* the finished game of scenario A: four cells are available, and a move on
\* one of them was refused
C18_Witness ==
  /\ board = ScenarioA
  /\ game_state = X_WINS
  /\ get_available_moves = <<3, 5, 6, 8>>
  /\ last.op = "make_move"
  /\ last.ret = FALSE
  /\ last.position = 5

\* X holds 1, 2, 3 and 6 and has played 0 as the ninth move: the row 0, 1, 2
\* and the column 0, 3, 6 are completed by the same move
ScenarioDouble == [i \in 0..8 |-> IF i \in {0, 1, 2, 3, 6} THEN "X" ELSE "O"]

\* the cells of the k-th pattern of the enumeration hold one mark
Completed(k) ==
  /\ board[WIN_PATTERNS[k][1]] # " "
  /\ board[WIN_PATTERNS[k][2]] = board[WIN_PATTERNS[k][1]]
  /\ board[WIN_PATTERNS[k][3]] = board[WIN_PATTERNS[k][1]]

\* C21: when a move completes more than one win pattern, the winning line
\* recorded is the first completed pattern in the order rows 0-1-2, 3-4-5,
\* 6-7-8, columns 0-3-6, 1-4-7, 2-5-8, diagonals 0-4-8, 2-4-6; whenever a
\* line is recorded, it is the first completed pattern in that order.
C21_FirstCompletedPatternIsRecorded ==
  /\ WIN_PATTERNS = << <<0, 1, 2>>, <<3, 4, 5>>, <<6, 7, 8>>, <<0, 3, 6>>,
                       <<1, 4, 7>>, <<2, 5, 8>>, <<0, 4, 8>>, <<2, 4, 6>> >>
  /\ game_state \in {X_WINS, O_WINS} =>
       \E k \in 1..8 : /\ Completed(k)
                        /\ \A j \in 1..(k - 1) : ~Completed(j)
                        /\ winning_pattern = WIN_PATTERNS[k]
  /\ board = ScenarioDouble => winning_pattern = <<0, 1, 2>>

\* the move 0 of the scenario has completed a row and a column
C21_Witness ==
  /\ board = ScenarioDouble
  /\ last = [op |-> "make_move", position |-> 0, ret |-> TRUE]
  /\ Completed(1)
  /\ Completed(4)
  /\ winning_pattern = <<0, 1, 2>>

\* C22: in every state reachable from a fresh game through make_move, at
\* most one mark has a completed win pattern.
C22_AtMostOneMarkHasALine == ~(HasLine(board, "X") /\ HasLine(board, "O"))

\* O has a line, X has none, and a further move was refused
C22_Witness ==
  /\ HasLine(board, "O")
  /\ ~HasLine(board, "X")
  /\ moves_count = 8
  /\ last.op = "make_move"
  /\ last.ret = FALSE
  /\ board[PyIndex(last.position)] = " "

\* the number of cells of the board that hold the mark m
CountOf(m) == Cardinality({i \in 0..8 : board[i] = m})

\* C24: the win bookkeeping agrees with the outcome.  winner and
\* winning_pattern are None when game_state is ONGOING or DRAW; when it is
\* X_WINS (O_WINS) winner is 'X' ('O'), the three cells of winning_pattern
\* hold the winner's mark, the winner made the last move and is still
\* current_player, and moves_count is odd and at least 5 (even and at least 6).
C24_WinBookkeeping ==
  /\ game_state \in {ONGOING, DRAW} => (winner = None /\ winning_pattern = NoPattern)
  /\ game_state \in {X_WINS, O_WINS} =>
       /\ winner = (IF game_state = X_WINS THEN "X" ELSE "O")
       /\ Len(winning_pattern) = 3
       /\ \A k \in 1..3 : board[winning_pattern[k]] = winner
       /\ current_player = winner
       /\ moves_count = CountOf("X") + CountOf("O")
  /\ game_state = X_WINS =>
       (CountOf("X") = CountOf("O") + 1 /\ moves_count % 2 = 1 /\ moves_count >= 5)
  /\ game_state = O_WINS =>
       (CountOf("X") = CountOf("O") /\ moves_count % 2 = 0 /\ moves_count >= 6)

\* O has won with the sixth move
C24_Witness ==
  /\ game_state = O_WINS
  /\ winner = "O"
  /\ current_player = "O"
  /\ moves_count = 6
  /\ last.op = "make_move"
  /\ last.ret = TRUE
  /\ board[last.position] = "O"

----------------------------------------------------------------------------
(* The claims on the strategies, checked under SpecAsk *)

\* C12: every built-in strategy (HumanPlayer, RandomAI, SmartAI in hard and
\* in easy mode), asked for a move in a reachable ONGOING state where it is its
\* mark's turn, returns an index for which is_valid_move holds; a search of
\* SmartAI never ends with best_move None at such a root, and HumanPlayer
\* returns its 1-based input minus 1, which passes is_valid_move.
C12_StrategiesReturnValidMoves ==
  last.op = "get_move" =>
    /\ game_state = ONGOING
    /\ last.player.symbol = current_player
    /\ is_valid_move(last.outcome.ret)
    /\ last.outcome.searched =>
         (last.outcome.best_move # NoMove /\ last.outcome.ret = last.outcome.best_move)
    /\ last.player.cls = "HumanPlayer" => last.outcome.ret = last.outcome.entered - 1

\* SmartAI in easy mode, as O with four marks on the board, searched
C12_Witness ==
  /\ last.op = "get_move"
  /\ last.player = SmartAI("O", "easy")
  /\ last.outcome.searched
  /\ moves_count = 3
  /\ is_valid_move(last.outcome.ret)

\* C19: a call of get_move of HumanPlayer, RandomAI or SmartAI leaves board,
\* moves_count, current_player, game_state, winner and winning_pattern as they
\* were; the list the search of SmartAI writes on is not the live board, and
\* when the search returns that list equals the board it was copied from.
C19_GetMoveLeavesGameAlone ==
  [][last'.op = "get_move" =>
       /\ UNCHANGED engine
       /\ last'.outcome.searched => last'.outcome.copy = board]_vars

\* a search of SmartAI in hard mode on a board with two marks has returned
C19_Witness ==
  /\ last.op = "get_move"
  /\ last.player = SmartAI("X", "hard")
  /\ last.outcome.searched
  /\ moves_count = 2
  /\ last.outcome.copy = board
  /\ Cardinality(EmptyCells(board)) = 7

\* the Empty cells of the board whose value for self is the highest
EqualBest(self) ==
  LET valued == {<<i, move_value(self, board, i)>> : i \in EmptyCells(board)}
  IN {p[1] : p \in {p \in valued : \A q \in valued : q[2] <= p[2]}}

\* C20: among the available moves whose minimax value equals the best value
\* for the mover, SmartAI in hard mode returns the lowest index; on the empty
\* board it returns index 0.
C20_LowestIndexAmongEqualBest ==
  (last.op = "get_move" /\ last.player = SmartAI(current_player, "hard")) =>
    /\ board = EmptyBoard => last.outcome.ret = 0
    /\ LET best == EqualBest(last.player)
       IN last.outcome.ret \in best /\ \A i \in best : last.outcome.ret <= i

\* O's first move, as SmartAI in hard mode: several cells are equally good and
\* the lowest of them was returned, which is not the lowest Empty cell
C20_Witness ==
  /\ last.op = "get_move"
  /\ moves_count = 1
  /\ last.player = SmartAI("O", "hard")
  /\ board[0] = " "
  /\ last.outcome.ret # 0
  /\ LET best == EqualBest(last.player)
     IN /\ Cardinality(best) > 1
        /\ last.outcome.ret \in best
        /\ \A i \in best : last.outcome.ret <= i

----------------------------------------------------------------------------
(* The claims on the search-based strategy, checked under SpecSmartX *)

SmartX == pc # "idle" /\ players.X = SmartAI("X", "hard")
SmartO == pc # "idle" /\ players.O = SmartAI("O", "hard")

\* C2: SmartAI in hard mode playing X first from the empty board never loses:
\* whatever legal replies the opponent makes, the game never reaches O_WINS,
\* and a finished session returns X_WINS or DRAW.
C2_SmartXNeverLoses ==
  SmartX => /\ game_state # O_WINS
            /\ pc = "done" => (result = game_state /\ result \in {X_WINS, DRAW})

\* a finished session in which SmartAI as X beat an opponent playing any reply
C2_Witness ==
  /\ pc = "done"
  /\ SmartX
  /\ players.O = RandomAI("O")
  /\ result = X_WINS
  /\ last.op = "make_move"
  /\ last.ret

\* C3: SmartAI hard as X against SmartAI hard as O from the empty board
\* always terminates, and the final outcome is DRAW with move count 9.
C3_SmartVsSmartDraws ==
  (pc = "while" /\ SmartX /\ SmartO /\ board = EmptyBoard)
    ~> (pc = "done" /\ result = DRAW /\ game_state = DRAW /\ moves_count = 9)

\* the finished session of the two search-based strategies
C3_Witness ==
  /\ pc = "done"
  /\ SmartX
  /\ SmartO
  /\ result = DRAW
  /\ moves_count = 9

----------------------------------------------------------------------------
(* The claim on the search-based strategy moving second, checked under
   SpecSmartO *)

\* C23: SmartAI in hard mode never loses when it moves second: as O against
\* any sequence of legal moves of X from the empty board, the game never ends
\* in X_WINS.
C23_SmartONeverLoses ==
  (pc # "idle" /\ players.O = SmartAI("O", "hard")) =>
    (game_state # X_WINS /\ result # X_WINS /\ ~HasLine(board, "X"))

\* X has opened in the centre, and the session has ended in a draw
C23_Witness ==
  /\ pc = "done"
  /\ players = [X |-> RandomAI("X"), O |-> SmartAI("O", "hard")]
  /\ board[4] = "X"
  /\ moves_count = 9
  /\ result = DRAW

----------------------------------------------------------------------------
(* The claims on sessions, checked under SpecSession *)

Automated == players[current_player].cls # "HumanPlayer"

Running == pc \in {"while", "get_move", "make_move"}

\* C13: when an automated strategy offers an illegal move, the session stops:
\* the step of play_game that follows the refused move ends the session
\* instead of going back to ask the same strategy again.
C13_IllegalAutomatedMoveStopsSession ==
  [][(pc = "make_move" /\ Automated /\ ~is_valid_move(move)) => ~Running']_vars

\* C14: when an interrupt occurs while HumanPlayer waits for input, play_game
\* returns to its caller, and the game is as the last accepted move left it.
C14_InterruptAtInputEndsSession ==
  [][(pc = "get_move" /\ ~Automated /\ entered # "interrupt" /\ entered' = "interrupt")
       => (~Running' /\ UNCHANGED engine)]_vars

\* C15: every session of play_game, a second call after a finished game
\* included, starts from the fresh state: all cells Empty, active mark X,
\* move count 0, outcome ONGOING.
C15_EverySessionStartsFresh ==
  [][(~Running /\ pc' = "while")
       => (/\ board' = EmptyBoard
           /\ current_player' = "X"
           /\ moves_count' = 0
           /\ game_state' = ONGOING)]_vars

LegalSession ==
  /\ players.X.cls \in {"HumanPlayer", "RandomAI"}
  /\ players.O.cls \in {"HumanPlayer", "RandomAI"}

\* C16: a session between two strategies that only return legal moves ends
\* (unless it is interrupted), and when play_game returns after the loop, it
\* returns the outcome of the engine, which is not ONGOING, and between 5 and
\* 9 moves have been accepted.
C16_LegalSessionTerminates ==
  /\ [](pc = "done" => (/\ result = game_state
                        /\ result # ONGOING
                        /\ moves_count \in 5..9
                        /\ moves_count = 9 - Cardinality(EmptyCells(board))))
  /\ ((pc = "while" /\ LegalSession) ~> (pc = "done" \/ pc = "interrupted"))

\* two RandomAI have played the shortest game there is
C16_Witness ==
  /\ pc = "done"
  /\ players = [X |-> RandomAI("X"), O |-> RandomAI("O")]
  /\ moves_count = 5
  /\ result = X_WINS

----------------------------------------------------------------------------
(* A GameStats object under a caller that records finished games and resets *)

Outcomes == {X_WINS, O_WINS, DRAW}

\* the number of moves of a finished game
MoveCounts == 5..9

RecordGame ==
  /\ Len(recorded) < MaxGames
  /\ \E gs \in Outcomes, total_moves \in MoveCounts : record_game(gs, total_moves)
  /\ UNCHANGED <<engine, last, driver>>

StatsReset ==
  /\ GameStats_reset
  /\ UNCHANGED <<engine, last, driver>>

NextStats == RecordGame \/ StatsReset

SpecStats == Init /\ [][NextStats]_vars

ScenarioStats == << <<X_WINS, 5>>, <<O_WINS, 7>>, <<DRAW, 9>>, <<X_WINS, 6>> >>

\* C17, as stated: after recording the outcomes (X_WINS, O_WINS, DRAW, X_WINS)
\* with move counts (5, 7, 9, 6) on a fresh GameStats, get_stats reports
\* games_played 4, x_wins 2, o_wins 1, draws 1 and average_moves 6.75.
C17_AverageIsExactQuotient ==
  recorded = ScenarioStats =>
    get_stats = [games_played |-> 4, x_wins |-> 2, o_wins |-> 1, draws |-> 1,
                 average_moves |-> 675]

\* C17, amended: after these four calls get_stats reports games_played 4,
\* x_wins 2, o_wins 1, draws 1 and average_moves 6.8, the quotient 27 / 4
\* rounded to one decimal; and after any calls, the counts add up and
\* average_moves is a multiple of 0.1 at most 0.05 away from the quotient.
C17_AverageIsRoundedToOneDecimal ==
  /\ recorded = ScenarioStats =>
       get_stats = [games_played |-> 4, x_wins |-> 2, o_wins |-> 1, draws |-> 1,
                    average_moves |-> 680]
  /\ get_stats.games_played = Len(recorded)
  /\ get_stats.x_wins + get_stats.o_wins + get_stats.draws = Len(recorded)
  /\ get_stats.average_moves % 10 = 0
  /\ LET n == max(1, Len(recorded))
     IN /\ n * get_stats.average_moves - 100 * stats.total_moves <= 5 * n
        /\ 100 * stats.total_moves - n * get_stats.average_moves <= 5 * n

C17_Witness ==
  /\ recorded = ScenarioStats
  /\ stats.total_moves = 27
  /\ get_stats.average_moves = 680

====
